---- MODULE Spec2Model ----
(***************************************************************************)
(* quasi-glib: the synchronization shim of src/patch/quasi-glib.           *)
(*                                                                         *)
(* Handles (GMutex, GRecMutex, GCond) are structures whose first field p   *)
(* is either null or a pointer to a heap-allocated pthread object.  Every  *)
(* operation first resolves its handles with *_get_impl (read p, and when  *)
(* it is null: construct, compare-and-swap, destroy on a lost race) and    *)
(* then calls the pthread primitive.  Threads are interleaved at the       *)
(* shared-memory accesses and the pthread calls of the source.             *)
(*                                                                         *)
(* The read of p at the top of *_get_impl is a plain load that can race    *)
(* with the compare-and-swap of another thread; for an aligned pointer the *)
(* build yields either the value before or the value after the swap, which *)
(* is what interleaving the read as one step gives.  The __sync builtins   *)
(* are full barriers, so the steps are sequentially consistent.            *)
(***************************************************************************)
EXTENDS Integers, FiniteSets, Sequences, TLC

\* Bounds of the model.
NThreads == 2
MaxDepth == 2
MaxRefs == 2
MaxSpurious == 1
MaxTicks == 3

Threads == 1..NThreads
Handles == {"mutex", "rec", "cond", "priv"}
\* An OS object is named by the handle it was constructed for and the thread
\* that constructed it (a thread constructs at most one object per handle).
Obj == Handles \X Threads
NULL == <<"null", 0>>
NoThread == 0
\* The values a thread stores under a key: the null pointer (0) and the two
\* reference values of the test (TLS_REF_VALUE of main and of ThreadFunc).
Vals == {0, 1, 2}

VARIABLES
  p,        \* p[h]: the ownership slot of handle h (GMutex::p, GRecMutex::p, GCond::p)
  life,     \* handle h: "absent" (not declared), "zeroed", "inited" (g_*_init),
            \* "lazy" (used while zeroed), "cleared"
  obj,      \* obj[o]: "none", "raw" (new, not pthread_*_init'ed), or the constructed kind
  freed,    \* freed[o]: how many times o was destroyed and deleted
  nalloc,   \* nalloc[h]: how many objects were constructed for h
  owner,    \* owner[o]: the thread holding pthread mutex o, or NoThread
  count,    \* count[o]: the lock count of pthread mutex o
  waiters,  \* waiters[o]: the threads blocked in pthread_cond_wait on o
  pc,       \* pc[t]: where thread t is inside its current operation
  op,       \* op[t]: the operation thread t is executing
  todo,     \* todo[t]: the handles the operation still has to resolve, in order
  impl,     \* impl[t]: the local variable impl of *_get_impl
  res,      \* res[t][h]: what *_get_impl(h) returned to the current operation
  holds,    \* holds[t]: t returned from g_mutex_lock and has not unlocked since
  depth,    \* depth[t]: g_rec_mutex_lock returns minus g_rec_mutex_unlock calls of t
  rets,     \* rets[h]: every value a *_get_impl(h) call has returned
  seen,     \* seen[h]: the first non-null value a thread read from p[h]
  line,     \* line[t]: the line of the test that t executes next (0: no program)
  flag,     \* ThreadData::flag of the test
  nspur,    \* spurious wakeups so far (counted in the scenario specifications)
  gthread,  \* the GThread object: "absent" (no thread handle in the program), "none", "live", "freed"
  tos,      \* the OS thread of GThread::thread: "none", "running", "exited", "joined", "invalid"
  ref_count,\* GThread::ref_count
  held,     \* held[t]: the references to the GThread that thread t owns
  nref,     \* add_ref calls made
  njoin,    \* pthread_join calls made on GThread::thread
  nfree,    \* delete calls made on the GThread
  errArg,   \* whether the caller passed a non-null GError** to g_thread_try_new
  err,      \* the caller's GError* slot: "stale" (whatever it held), "null", "error"
  created,  \* pthread_create: "none" (not called), "ok", "failed"
  result,   \* what g_thread_try_new returned: "none" (not returned), "null", "handle"
  xjoined,  \* whether g_thread_join was called by a holder of the handle
  tls,      \* tls[o][t]: the value of thread t for pthread key o (0: null)
  notify,   \* GPrivate::notify: "null" or "destroy"
  dtor,     \* dtor[o]: the destructor pthread_key_create bound to key o ("none": no key)
  stored,   \* stored[t]: the value of the last g_private_set of thread t (0: none yet)
  got,      \* got[t]: <<v>> when the last operation of t was a g_private_get that returned v
  ndtor,    \* ndtor[t]: destructor invocations made for thread t
  dval,     \* dval[t]: the values the destructor was invoked on for thread t
  numer,    \* timebase_info.numer, the function-static of g_get_monotonic_time
  denom,    \* timebase_info.denom
  machtb,   \* what mach_timebase_info reports on this machine: <<numer, denom>>
  ticks,    \* mach_absolute_time(), counted from the start of the process
  mret,     \* mret[t]: <<v>> when the last call of g_get_monotonic_time by t returned v
  mfloor,   \* mfloor[t]: the largest result returned before the current call of t started
  mmax,     \* the largest result returned so far
  raced     \* whether a call overlapped the initialisation of timebase_info by another

hvars == <<p, life, obj, freed, nalloc>>
ovars == <<owner, count, waiters>>
tvars == <<pc, op, todo, impl, res>>
cvars == <<holds, depth>>
gvars == <<rets, seen>>
svars == <<line, flag, nspur>>
xvars == <<gthread, tos, ref_count, held, nref, njoin, nfree, errArg, err, created, result, xjoined>>
kvars == <<tls, notify, dtor, stored, got, ndtor, dval>>
mvars == <<numer, denom, machtb, ticks, mret, mfloor, mmax, raced>>
vars == <<hvars, ovars, tvars, cvars, gvars, svars, xvars, kvars, mvars>>

NoRes == [h \in Handles |-> NULL]

ObjOf(h) == {o \in Obj : o[1] = h}
Constructed(o) == obj[o] \notin {"none", "raw"}
Live(o) == obj[o] # "none" /\ freed[o] = 0

\* The handles an operation resolves with *_get_impl, in call order.  The two
\* arguments of pthread_cond_wait are evaluated in an unspecified order.
Resolves(o) ==
  CASE o = "lock" -> {<<"mutex">>}
    [] o = "unlock" -> {<<"mutex">>}
    [] o = "rlock" -> {<<"rec">>}
    [] o = "runlock" -> {<<"rec">>}
    [] o = "wait" -> {<<"cond", "mutex">>, <<"mutex", "cond">>}
    [] o = "signal" -> {<<"cond">>}
    [] o = "broadcast" -> {<<"cond">>}
    [] o = "get" -> {<<"priv">>}
    [] o = "set" -> {<<"priv">>}

Ops == {"lock", "unlock", "rlock", "runlock", "wait", "signal", "broadcast", "get", "set"}

\* What the caller guarantees before it calls the operation: it does not lock
\* a GMutex it holds, unlocks and waits only while holding, and, in a program
\* that has a mutex, signals under it as ThreadFunc does.  A thread that runs
\* the test (line[t] # 0) calls what the test calls.
MayCall(t, o) ==
  CASE o = "lock" -> ~holds[t]
    [] o = "unlock" -> holds[t]
    [] o = "rlock" -> depth[t] < MaxDepth \/ line[t] # 0
    [] o = "runlock" -> depth[t] > 0
    [] o = "wait" -> holds[t]
    [] o = "signal" -> holds[t] \/ life["mutex"] = "absent"
    [] o = "broadcast" -> holds[t] \/ life["mutex"] = "absent" \/ line[t] # 0
    [] o = "get" -> TRUE
    [] o = "set" -> TRUE

\* The attributes *_impl_new configures the pthread object with.
g_mutex_impl_new == "normal"

\* Faulty variant: pthread_mutexattr_settype(PTHREAD_MUTEX_RECURSIVE) is left out.
g_rec_mutex_impl_new_default == "normal"

g_rec_mutex_impl_new == "recursive"

g_cond_impl_new == "cond"

g_private_impl_new == "key"

\* Faulty variant: the key is created without the destructor of the handle.
key_notify_null == "null"

\* g_private_impl_new(key->notify): the destructor handed to pthread_key_create
key_notify == notify

impl_new(h) ==
  CASE h = "mutex" -> g_mutex_impl_new
    [] h = "rec" -> g_rec_mutex_impl_new
    [] h = "cond" -> g_cond_impl_new
    [] h = "priv" -> g_private_impl_new

\* A call of the operation: the thread enters the first *_get_impl.
Call(t, o, order) ==
  /\ pc[t] = "idle"
  /\ MayCall(t, o)
  /\ \A i \in 1..Len(order) : life[order[i]] \notin {"absent", "cleared"}
  /\ pc' = [pc EXCEPT ![t] = "read"]
  /\ op' = [op EXCEPT ![t] = o]
  /\ todo' = [todo EXCEPT ![t] = order]
  /\ res' = [res EXCEPT ![t] = NoRes]
  /\ life' = [h \in Handles |->
               IF life[h] = "zeroed" /\ \E i \in 1..Len(order) : order[i] = h
               THEN "lazy" ELSE life[h]]
  /\ got' = [got EXCEPT ![t] = <<>>]
  /\ UNCHANGED <<p, obj, freed, nalloc, ovars, impl, cvars, gvars, xvars>>
  /\ UNCHANGED <<tls, notify, dtor, stored, ndtor, dval, mvars>>

\* return impl: the value goes to the operation, which resolves its next
\* handle or makes its pthread call.
Return(t, h, v) ==
  /\ rets' = [rets EXCEPT ![h] = @ \cup {v}]
  /\ res' = [res EXCEPT ![t][h] = v]
  /\ todo' = [todo EXCEPT ![t] = Tail(@)]
  /\ impl' = [impl EXCEPT ![t] = NULL]
  /\ pc' = [pc EXCEPT ![t] = IF Len(todo[t]) = 1 THEN "call" ELSE "read"]

\* Faulty variant: the slot is read under a lock that a thread holds for the
\* whole of *_get_impl.
get_impl_read_locked(t) ==
  /\ pc[t] = "read"
  /\ \A u \in Threads \ {t} : pc[u] \notin {"new", "init", "cas", "free", "reread"}
  /\ LET h == Head(todo[t])
         v == p[h]
     IN /\ seen' = IF v # NULL /\ seen[h] = NULL THEN [seen EXCEPT ![h] = v] ELSE seen
        /\ IF v # NULL
           THEN Return(t, h, v)
           ELSE /\ pc' = [pc EXCEPT ![t] = "new"]
                /\ UNCHANGED <<todo, impl, res, rets>>
  /\ UNCHANGED <<hvars, ovars, op, cvars, svars, xvars>>
  /\ UNCHANGED <<kvars, mvars>>

\* impl = mutex->p; __sync_synchronize(); if (nullptr == impl) ...
get_impl_read(t) ==
  /\ pc[t] = "read"
  /\ LET h == Head(todo[t])
         v == p[h]
     IN /\ seen' = IF v # NULL /\ seen[h] = NULL THEN [seen EXCEPT ![h] = v] ELSE seen
        /\ IF v # NULL
           THEN Return(t, h, v)
           ELSE /\ pc' = [pc EXCEPT ![t] = "new"]
                /\ UNCHANGED <<todo, impl, res, rets>>
  /\ UNCHANGED <<hvars, ovars, op, cvars, svars, xvars>>
  /\ UNCHANGED <<kvars, mvars>>

\* Faulty variant: the pointer is handed on before pthread_*_init has run.
impl_new_alloc_noinit(t) ==
  /\ pc[t] = "new"
  /\ LET h == Head(todo[t])
         o == <<h, t>>
     IN /\ obj' = [obj EXCEPT ![o] = "raw"]
        /\ nalloc' = [nalloc EXCEPT ![h] = @ + 1]
        /\ impl' = [impl EXCEPT ![t] = o]
  /\ pc' = [pc EXCEPT ![t] = "cas"]
  /\ UNCHANGED <<p, life, freed, ovars, op, todo, res, cvars, gvars, svars, xvars>>
  /\ UNCHANGED <<kvars, mvars>>

\* *_impl_new: mutex = new pthread_mutex_t
impl_new_alloc(t) ==
  /\ pc[t] = "new"
  /\ LET h == Head(todo[t])
         o == <<h, t>>
     IN /\ obj' = [obj EXCEPT ![o] = "raw"]
        /\ nalloc' = [nalloc EXCEPT ![h] = @ + 1]
        /\ impl' = [impl EXCEPT ![t] = o]
  /\ pc' = [pc EXCEPT ![t] = "init"]
  /\ UNCHANGED <<p, life, freed, ovars, op, todo, res, cvars, gvars, svars, xvars>>
  /\ UNCHANGED <<kvars, mvars>>

\* *_impl_new: pthread_*_init(mutex, &attr); return mutex
impl_new_init(t) ==
  /\ pc[t] = "init"
  /\ obj' = [obj EXCEPT ![impl[t]] = impl_new(Head(todo[t]))]
  /\ pc' = [pc EXCEPT ![t] = "cas"]
  /\ dtor' = IF Head(todo[t]) = "priv" THEN [dtor EXCEPT ![impl[t]] = key_notify] ELSE dtor
  /\ UNCHANGED <<p, life, freed, nalloc, ovars, op, todo, impl, res, cvars, gvars, svars, xvars>>
  /\ UNCHANGED <<tls, notify, stored, got, ndtor, dval, mvars>>

\* Faulty variant: a plain store instead of the compare-and-swap.
get_impl_cas_store(t) ==
  /\ pc[t] = "cas"
  /\ LET h == Head(todo[t])
     IN /\ p' = [p EXCEPT ![h] = impl[t]]
        /\ Return(t, h, impl[t])
  /\ UNCHANGED <<life, obj, freed, nalloc, ovars, op, cvars, seen, svars, xvars>>
  /\ UNCHANGED <<kvars, mvars>>

\* if (__sync_val_compare_and_swap(&mutex->p, nullptr, impl) != nullptr)
get_impl_cas(t) ==
  /\ pc[t] = "cas"
  /\ LET h == Head(todo[t])
     IN IF p[h] = NULL
        THEN /\ p' = [p EXCEPT ![h] = impl[t]]
             /\ Return(t, h, impl[t])
        ELSE /\ pc' = [pc EXCEPT ![t] = "free"]
             /\ UNCHANGED <<p, todo, impl, res, rets>>
  /\ UNCHANGED <<life, obj, freed, nalloc, ovars, op, cvars, seen, svars, xvars>>
  /\ UNCHANGED <<kvars, mvars>>

\* Faulty variant: the loser destroys the published object instead of its own.
impl_free_published(t) ==
  /\ pc[t] = "free"
  /\ freed' = [freed EXCEPT ![p[Head(todo[t])]] = @ + 1]
  /\ pc' = [pc EXCEPT ![t] = "reread"]
  /\ UNCHANGED <<p, life, obj, nalloc, ovars, op, todo, impl, res, cvars, gvars, svars, xvars>>
  /\ UNCHANGED <<kvars, mvars>>

\* *_impl_free(impl): pthread_*_destroy(impl); delete impl
impl_free(t) ==
  /\ pc[t] = "free"
  /\ freed' = [freed EXCEPT ![impl[t]] = @ + 1]
  /\ pc' = [pc EXCEPT ![t] = "reread"]
  /\ UNCHANGED <<p, life, obj, nalloc, ovars, op, todo, impl, res, cvars, gvars, svars, xvars>>
  /\ UNCHANGED <<kvars, mvars>>

\* Faulty variant: the loser keeps its own, destroyed, object.
get_impl_reread_own(t) ==
  /\ pc[t] = "reread"
  /\ Return(t, Head(todo[t]), impl[t])
  /\ UNCHANGED <<hvars, ovars, op, cvars, seen, svars, xvars>>
  /\ UNCHANGED <<kvars, mvars>>

\* impl = mutex->p; return impl
get_impl_reread(t) ==
  /\ pc[t] = "reread"
  /\ LET h == Head(todo[t])
         v == p[h]
     IN /\ seen' = IF v # NULL /\ seen[h] = NULL THEN [seen EXCEPT ![h] = v] ELSE seen
        /\ Return(t, h, v)
  /\ UNCHANGED <<hvars, ovars, op, cvars, svars, xvars>>
  /\ UNCHANGED <<kvars, mvars>>

get_impl(t) ==
  \/ get_impl_read(t)
  \/ impl_new_alloc(t)
  \/ impl_new_init(t)
  \/ get_impl_cas(t)
  \/ impl_free(t)
  \/ get_impl_reread(t)

\* pthread_mutex_lock returns when the mutex is free, or at once for the owner
\* of a recursive mutex.
CanLock(t, o) == owner[o] = NoThread \/ (obj[o] = "recursive" /\ owner[o] = t)

Locked(t, o) ==
  /\ owner' = [owner EXCEPT ![o] = t]
  /\ count' = [count EXCEPT ![o] = @ + 1]

\* pthread_mutex_unlock: the owner's count drops and the mutex is released at
\* zero; a thread that is not the owner gets EPERM.
Unlocked(t, o) ==
  IF owner[o] = t
  THEN /\ count' = [count EXCEPT ![o] = @ - 1]
       /\ owner' = [owner EXCEPT ![o] = IF count[o] = 1 THEN NoThread ELSE t]
  ELSE UNCHANGED <<owner, count>>

\* The operation returns to its caller.
Done(t) ==
  /\ pc' = [pc EXCEPT ![t] = "idle"]
  /\ op' = [op EXCEPT ![t] = "none"]
  /\ res' = [res EXCEPT ![t] = NoRes]
  /\ UNCHANGED <<todo, impl>>

\* pthread_mutex_lock(g_mutex_get_impl(mutex))
g_mutex_lock(t) ==
  /\ pc[t] = "call" /\ op[t] = "lock"
  /\ CanLock(t, res[t]["mutex"])
  /\ Locked(t, res[t]["mutex"])
  /\ holds' = [holds EXCEPT ![t] = TRUE]
  /\ Done(t)
  /\ UNCHANGED <<hvars, waiters, depth, gvars, svars, xvars>>
  /\ UNCHANGED <<kvars, mvars>>

\* Faulty variant: the pthread mutex is not released.
g_mutex_unlock_kept(t) ==
  /\ pc[t] = "call" /\ op[t] = "unlock"
  /\ holds' = [holds EXCEPT ![t] = FALSE]
  /\ Done(t)
  /\ UNCHANGED <<hvars, ovars, depth, gvars, svars, xvars>>
  /\ UNCHANGED <<kvars, mvars>>

\* pthread_mutex_unlock(g_mutex_get_impl(mutex))
g_mutex_unlock(t) ==
  /\ pc[t] = "call" /\ op[t] = "unlock"
  /\ Unlocked(t, res[t]["mutex"])
  /\ holds' = [holds EXCEPT ![t] = FALSE]
  /\ Done(t)
  /\ UNCHANGED <<hvars, waiters, depth, gvars, svars, xvars>>
  /\ UNCHANGED <<kvars, mvars>>

\* pthread_mutex_lock(g_rec_mutex_get_impl(mutex))
g_rec_mutex_lock(t) ==
  /\ pc[t] = "call" /\ op[t] = "rlock"
  /\ CanLock(t, res[t]["rec"])
  /\ Locked(t, res[t]["rec"])
  /\ depth' = [depth EXCEPT ![t] = @ + 1]
  /\ Done(t)
  /\ UNCHANGED <<hvars, waiters, holds, gvars, svars, xvars>>
  /\ UNCHANGED <<kvars, mvars>>

\* pthread_mutex_unlock(g_rec_mutex_get_impl(mutex))
g_rec_mutex_unlock(t) ==
  /\ pc[t] = "call" /\ op[t] = "runlock"
  /\ Unlocked(t, res[t]["rec"])
  /\ depth' = [depth EXCEPT ![t] = @ - 1]
  /\ Done(t)
  /\ UNCHANGED <<hvars, waiters, holds, gvars, svars, xvars>>
  /\ UNCHANGED <<kvars, mvars>>

\* pthread_cond_wait(g_cond_get_impl(cond), g_mutex_get_impl(mutex)), first
\* half: the mutex is released and the thread blocks on the condition variable
\* in one atomic step.
g_cond_wait(t) ==
  /\ pc[t] = "call" /\ op[t] = "wait"
  /\ Unlocked(t, res[t]["mutex"])
  /\ waiters' = [waiters EXCEPT ![res[t]["cond"]] = @ \cup {t}]
  /\ holds' = [holds EXCEPT ![t] = FALSE]
  /\ pc' = [pc EXCEPT ![t] = "waiting"]
  /\ UNCHANGED <<hvars, op, todo, impl, res, depth, gvars, svars, xvars>>
  /\ UNCHANGED <<kvars, mvars>>

\* pthread_cond_wait, second half: once woken the thread takes the mutex again
\* and g_cond_wait returns.
g_cond_wait_return(t) ==
  /\ pc[t] = "waiting"
  /\ t \notin waiters[res[t]["cond"]]
  /\ CanLock(t, res[t]["mutex"])
  /\ Locked(t, res[t]["mutex"])
  /\ holds' = [holds EXCEPT ![t] = TRUE]
  /\ Done(t)
  /\ UNCHANGED <<hvars, waiters, depth, gvars, svars, xvars>>
  /\ UNCHANGED <<kvars, mvars>>

\* Faulty variant: the signal is dropped.
g_cond_signal_dropped(t) ==
  /\ pc[t] = "call" /\ op[t] = "signal"
  /\ Done(t)
  /\ UNCHANGED <<hvars, ovars, cvars, gvars, svars, xvars>>
  /\ UNCHANGED <<kvars, mvars>>

\* pthread_cond_signal(g_cond_get_impl(cond)): one waiter, if any, is woken.
g_cond_signal(t) ==
  /\ pc[t] = "call" /\ op[t] = "signal"
  /\ LET c == res[t]["cond"]
     IN IF waiters[c] = {}
        THEN UNCHANGED waiters
        ELSE \E w \in waiters[c] : waiters' = [waiters EXCEPT ![c] = @ \ {w}]
  /\ Done(t)
  /\ UNCHANGED <<hvars, owner, count, cvars, gvars, svars, xvars>>
  /\ UNCHANGED <<kvars, mvars>>

\* pthread_cond_broadcast(g_cond_get_impl(cond)): every waiter is woken.
g_cond_broadcast(t) ==
  /\ pc[t] = "call" /\ op[t] = "broadcast"
  /\ waiters' = [waiters EXCEPT ![res[t]["cond"]] = {}]
  /\ Done(t)
  /\ UNCHANGED <<hvars, owner, count, cvars, gvars, svars, xvars>>
  /\ UNCHANGED <<kvars, mvars>>

\* pthread_cond_wait may return without a signal (POSIX spurious wakeup).
spurious_wakeup(t) ==
  /\ pc[t] = "waiting"
  /\ t \in waiters[res[t]["cond"]]
  /\ waiters' = [waiters EXCEPT ![res[t]["cond"]] = @ \ {t}]
  /\ UNCHANGED <<hvars, owner, count, tvars, cvars, gvars, line, flag, xvars>>
  /\ UNCHANGED <<kvars, mvars>>

\* g_mutex_init, g_rec_mutex_init, g_cond_init: p = *_impl_new(), on storage
\* that no operation has used yet (the caller may not race init with lazy use).
g_init(t, h) ==
  /\ pc[t] = "idle"
  /\ h # "priv"
  /\ life[h] = "zeroed"
  /\ p' = [p EXCEPT ![h] = <<h, t>>]
  /\ obj' = [obj EXCEPT ![<<h, t>>] = impl_new(h)]
  /\ nalloc' = [nalloc EXCEPT ![h] = @ + 1]
  /\ life' = [life EXCEPT ![h] = "inited"]
  /\ UNCHANGED <<freed, ovars, tvars, cvars, gvars, svars, xvars>>
  /\ UNCHANGED <<kvars, mvars>>

\* No thread is inside an operation on h, holds it or waits on it: what the
\* caller of clear must guarantee.
OpHandles(o) ==
  IF o \in Ops
  THEN UNION {{order[i] : i \in 1..Len(order)} : order \in Resolves(o)}
  ELSE {}

Unused(h) ==
  /\ \A t \in Threads : pc[t] # "idle" => h \notin OpHandles(op[t])
  /\ h = "mutex" => \A t \in Threads : ~holds[t]
  /\ h = "rec" => \A t \in Threads : depth[t] = 0

\* g_mutex_clear, g_rec_mutex_clear, g_cond_clear: *_impl_free(p); p keeps
\* its value.  The slot is not tested: on a zeroed handle that no operation
\* has used, pthread_*_destroy gets a null pointer, which is undefined: it
\* fails (EINVAL) and delete of null does nothing, or the call faults.
g_clear(t, h) ==
  /\ pc[t] = "idle"
  /\ h # "priv"
  /\ life[h] \in {"zeroed", "inited", "lazy"}
  /\ Unused(h)
  /\ IF p[h] # NULL
     THEN /\ freed' = [freed EXCEPT ![p[h]] = @ + 1]
          /\ UNCHANGED <<pc, op>>
     ELSE /\ UNCHANGED freed
          /\ \E n \in {"idle", "fault"} :
               /\ pc' = [pc EXCEPT ![t] = n]
               /\ op' = [op EXCEPT ![t] = IF n = "fault" THEN "clear" ELSE "none"]
  /\ life' = [life EXCEPT ![h] = "cleared"]
  /\ UNCHANGED <<p, obj, nalloc, ovars, todo, impl, res, cvars, gvars, svars, xvars>>
  /\ UNCHANGED <<kvars, mvars>>

\* return pthread_getspecific(*g_private_get_impl(key))
g_private_get(t) ==
  /\ pc[t] = "call" /\ op[t] = "get"
  /\ got' = [got EXCEPT ![t] = <<tls[res[t]["priv"]][t]>>]
  /\ Done(t)
  /\ UNCHANGED <<hvars, ovars, cvars, gvars, svars, xvars>>
  /\ UNCHANGED <<tls, notify, dtor, stored, ndtor, dval, mvars>>

\* Faulty variant: the value is stored for every thread.
g_private_set_global(t) ==
  /\ pc[t] = "call" /\ op[t] = "set"
  /\ \E v \in Vals :
       /\ tls' = [tls EXCEPT ![res[t]["priv"]] = [u \in Threads |-> v]]
       /\ stored' = [stored EXCEPT ![t] = v]
  /\ Done(t)
  /\ UNCHANGED <<hvars, ovars, cvars, gvars, svars, xvars>>
  /\ UNCHANGED <<notify, dtor, got, ndtor, dval, mvars>>

\* Faulty variant: the destructor is run on the value that is overwritten.
g_private_set_replace(t) ==
  /\ pc[t] = "call" /\ op[t] = "set"
  /\ LET k == res[t]["priv"]
         old == tls[k][t]
     IN /\ \E v \in Vals :
             /\ tls' = [tls EXCEPT ![k][t] = v]
             /\ stored' = [stored EXCEPT ![t] = v]
        /\ IF old # 0 /\ dtor[k] = "destroy"
           THEN /\ ndtor' = [ndtor EXCEPT ![t] = @ + 1]
                /\ dval' = [dval EXCEPT ![t] = @ \cup {old}]
           ELSE UNCHANGED <<ndtor, dval>>
  /\ Done(t)
  /\ UNCHANGED <<hvars, ovars, cvars, gvars, svars, xvars>>
  /\ UNCHANGED <<notify, dtor, got, mvars>>

\* pthread_setspecific(*g_private_get_impl(key), value), for any value
g_private_set(t) ==
  /\ pc[t] = "call" /\ op[t] = "set"
  /\ \E v \in Vals :
       /\ tls' = [tls EXCEPT ![res[t]["priv"]][t] = v]
       /\ stored' = [stored EXCEPT ![t] = v]
  /\ Done(t)
  /\ UNCHANGED <<hvars, ovars, cvars, gvars, svars, xvars>>
  /\ UNCHANGED <<notify, dtor, got, ndtor, dval, mvars>>

\* The keys for which the runtime runs a destructor when thread t ends: the
\* keys not deleted under which t has a non-null value and to which
\* pthread_key_create bound a non-null destructor.
ExitKeys(t) ==
  {k \in ObjOf("priv") : obj[k] = "key" /\ freed[k] = 0 /\ tls[k][t] # 0 /\ dtor[k] = "destroy"}

\* A thread that uses the key ends: for each of its keys the runtime sets the
\* value to null and invokes the destructor on the value it held.
thread_exit(t) ==
  /\ pc[t] = "idle"
  /\ line[t] = 0
  /\ life["priv"] # "absent"
  /\ pc' = [pc EXCEPT ![t] = "exited"]
  /\ ndtor' = [ndtor EXCEPT ![t] = @ + Cardinality(ExitKeys(t))]
  /\ dval' = [dval EXCEPT ![t] = @ \cup {tls[k][t] : k \in ExitKeys(t)}]
  /\ tls' = [k \in Obj |-> IF k \in ExitKeys(t) THEN [tls[k] EXCEPT ![t] = 0] ELSE tls[k]]
  /\ got' = [got EXCEPT ![t] = <<>>]
  /\ UNCHANGED <<hvars, ovars, op, todo, impl, res, cvars, gvars, svars, xvars>>
  /\ UNCHANGED <<notify, dtor, stored, mvars>>

pthread_call(t) ==
  \/ g_mutex_lock(t)
  \/ g_mutex_unlock(t)
  \/ g_rec_mutex_lock(t)
  \/ g_rec_mutex_unlock(t)
  \/ g_cond_wait(t)
  \/ g_cond_wait_return(t)
  \/ g_cond_signal(t)
  \/ g_cond_broadcast(t)

(***************************************************************************)
(* The thread handle: g_thread_try_new, g_thread_join, g_thread_unref.     *)
(***************************************************************************)

\* Someone is inside g_thread_try_new.
Spawning == \E u \in Threads : op[u] = "try_new"

\* Faulty variant: the error slot is left as the caller passed it.
g_thread_try_new_entry_noclear(t) ==
  /\ pc[t] = "idle"
  /\ gthread = "none" /\ created = "none" /\ ~Spawning
  /\ pc' = [pc EXCEPT ![t] = "create"]
  /\ op' = [op EXCEPT ![t] = "try_new"]
  /\ UNCHANGED <<hvars, ovars, todo, impl, res, cvars, gvars, svars>>
  /\ UNCHANGED <<xvars, kvars, mvars>>

\* g_thread_try_new, lines 412-415: if (error != nullptr) *error = nullptr
g_thread_try_new_entry(t) ==
  /\ pc[t] = "idle"
  /\ gthread = "none" /\ created = "none" /\ ~Spawning
  /\ err' = IF errArg THEN "null" ELSE err
  /\ pc' = [pc EXCEPT ![t] = "create"]
  /\ op' = [op EXCEPT ![t] = "try_new"]
  /\ UNCHANGED <<hvars, ovars, todo, impl, res, cvars, gvars, svars>>
  /\ UNCHANGED <<gthread, tos, ref_count, held, nref, njoin, nfree, errArg, created, result, xjoined>>
  /\ UNCHANGED <<kvars, mvars>>

\* g_thread_try_new, lines 417-426: thread = new GThread; pthread_create(...),
\* whose return value is not looked at; thread->ref_count = 1; return thread.
\* When pthread_create fails, thread->thread is left indeterminate.
g_thread_try_new(t) ==
  /\ pc[t] = "create"
  /\ \E r \in {"ok", "failed"} :
       /\ created' = r
       /\ tos' = IF r = "ok" THEN "running" ELSE "invalid"
  /\ gthread' = "live"
  /\ ref_count' = 1
  /\ result' = "handle"
  /\ held' = [held EXCEPT ![t] = 1]
  /\ pc' = [pc EXCEPT ![t] = "idle"]
  /\ op' = [op EXCEPT ![t] = "none"]
  /\ UNCHANGED <<hvars, ovars, todo, impl, res, cvars, gvars, svars>>
  /\ UNCHANGED <<nref, njoin, nfree, errArg, err, xjoined>>
  /\ UNCHANGED <<kvars, mvars>>

\* The thread function returns: the OS thread ends and can be joined.
ThreadFunc_return ==
  /\ tos = "running"
  /\ tos' = "exited"
  /\ UNCHANGED <<hvars, ovars, tvars, cvars, gvars, svars>>
  /\ UNCHANGED <<gthread, ref_count, held, nref, njoin, nfree, errArg, err, created, result, xjoined>>
  /\ UNCHANGED <<kvars, mvars>>

\* add_ref: an owner of a reference takes one more, atomically, and hands it
\* to thread u.
g_thread_ref(t, u) ==
  /\ pc[t] = "idle"
  /\ held[t] > 0
  /\ nref < MaxRefs
  /\ ref_count' = ref_count + 1
  /\ held' = [held EXCEPT ![u] = @ + 1]
  /\ nref' = nref + 1
  /\ UNCHANGED <<hvars, ovars, tvars, cvars, gvars, svars>>
  /\ UNCHANGED <<gthread, tos, njoin, nfree, errArg, err, created, result, xjoined>>
  /\ UNCHANGED <<kvars, mvars>>

\* pthread_join(thread->thread, &result).  It blocks while the thread runs and
\* joins a thread that has ended.  On a thread already joined, or a pthread_t
\* pthread_create never filled in, the behaviour is undefined: the call fails
\* (ESRCH) and the caller goes on, or it faults.
pthread_join(t, next) ==
  /\ tos # "running"
  /\ njoin' = njoin + 1
  /\ IF tos = "exited"
     THEN /\ tos' = "joined"
          /\ pc' = [pc EXCEPT ![t] = next]
     ELSE /\ UNCHANGED tos
          /\ \E n \in {next, "fault"} : pc' = [pc EXCEPT ![t] = n]

\* void* g_thread_join(GThread* thread), called by an owner of a reference,
\* once (the caller may not join twice directly).
g_thread_join(t) ==
  /\ pc[t] = "idle"
  /\ held[t] > 0
  /\ ~xjoined
  /\ xjoined' = TRUE
  /\ pthread_join(t, "idle")
  /\ UNCHANGED <<hvars, ovars, op, todo, impl, res, cvars, gvars, svars>>
  /\ UNCHANGED <<gthread, ref_count, held, nref, nfree, errArg, err, created, result>>
  /\ UNCHANGED <<kvars, mvars>>

\* Faulty variant: the old value of the count is tested (__sync_fetch_and_sub).
g_thread_unref_old(t) ==
  /\ pc[t] = "idle"
  /\ held[t] > 0
  /\ held' = [held EXCEPT ![t] = @ - 1]
  /\ ref_count' = ref_count - 1
  /\ IF ref_count = 0
     THEN /\ pc' = [pc EXCEPT ![t] = "join"]
          /\ op' = [op EXCEPT ![t] = "unref"]
     ELSE UNCHANGED <<pc, op>>
  /\ UNCHANGED <<hvars, ovars, todo, impl, res, cvars, gvars, svars>>
  /\ UNCHANGED <<gthread, tos, nref, njoin, nfree, errArg, err, created, result, xjoined>>
  /\ UNCHANGED <<kvars, mvars>>

\* g_thread_unref: if (__sync_sub_and_fetch(&thread->ref_count, 1) == 0)
g_thread_unref(t) ==
  /\ pc[t] = "idle"
  /\ held[t] > 0
  /\ held' = [held EXCEPT ![t] = @ - 1]
  /\ ref_count' = ref_count - 1
  /\ IF ref_count - 1 = 0
     THEN /\ pc' = [pc EXCEPT ![t] = "join"]
          /\ op' = [op EXCEPT ![t] = "unref"]
     ELSE UNCHANGED <<pc, op>>
  /\ UNCHANGED <<hvars, ovars, todo, impl, res, cvars, gvars, svars>>
  /\ UNCHANGED <<gthread, tos, nref, njoin, nfree, errArg, err, created, result, xjoined>>
  /\ UNCHANGED <<kvars, mvars>>

\* g_thread_unref: g_thread_join(thread), whether or not it was joined before
g_thread_unref_join(t) ==
  /\ pc[t] = "join"
  /\ pthread_join(t, "delete")
  /\ UNCHANGED <<hvars, ovars, op, todo, impl, res, cvars, gvars, svars>>
  /\ UNCHANGED <<gthread, ref_count, held, nref, nfree, errArg, err, created, result, xjoined>>
  /\ UNCHANGED <<kvars, mvars>>

\* g_thread_unref: delete thread
g_thread_unref_delete(t) ==
  /\ pc[t] = "delete"
  /\ gthread' = "freed"
  /\ nfree' = nfree + 1
  /\ pc' = [pc EXCEPT ![t] = "idle"]
  /\ op' = [op EXCEPT ![t] = "none"]
  /\ UNCHANGED <<hvars, ovars, todo, impl, res, cvars, gvars, svars>>
  /\ UNCHANGED <<tos, ref_count, held, nref, njoin, errArg, err, created, result, xjoined>>
  /\ UNCHANGED <<kvars, mvars>>

(***************************************************************************)
(* Spec: any number of operations of any thread.  The client program       *)
(* declares a mutex with a condition variable, a condition variable alone, *)
(* a recursive mutex, or spawns a thread and shares its handle; a handle   *)
(* is either set up by g_*_init or left zeroed and allocated lazily.       *)
(***************************************************************************)
Programs == {{"mutex", "cond"}, {"cond"}, {"rec"}}

InitHandles ==
  /\ p = [h \in Handles |-> NULL]
  /\ obj = [o \in Obj |-> "none"]
  /\ freed = [o \in Obj |-> 0]
  /\ nalloc = [h \in Handles |-> 0]
  /\ owner = [o \in Obj |-> NoThread]
  /\ count = [o \in Obj |-> 0]
  /\ waiters = [o \in Obj |-> {}]
  /\ rets = [h \in Handles |-> {}]
  /\ seen = [h \in Handles |-> NULL]

InitThreads ==
  /\ pc = [t \in Threads |-> "idle"]
  /\ op = [t \in Threads |-> "none"]
  /\ todo = [t \in Threads |-> <<>>]
  /\ impl = [t \in Threads |-> NULL]
  /\ res = [t \in Threads |-> NoRes]
  /\ holds = [t \in Threads |-> FALSE]
  /\ depth = [t \in Threads |-> 0]

InitGThread ==
  /\ tos = "none"
  /\ ref_count = 0
  /\ held = [t \in Threads |-> 0]
  /\ nref = 0
  /\ njoin = 0
  /\ nfree = 0
  /\ created = "none"
  /\ result = "none"
  /\ xjoined = FALSE

InitPrivate ==
  /\ tls = [o \in Obj |-> [t \in Threads |-> 0]]
  /\ dtor = [o \in Obj |-> "none"]
  /\ stored = [t \in Threads |-> 0]
  /\ got = [t \in Threads |-> <<>>]
  /\ ndtor = [t \in Threads |-> 0]
  /\ dval = [t \in Threads |-> {}]

InitTime ==
  /\ numer = 0
  /\ denom = 0
  /\ ticks = 0
  /\ mret = [t \in Threads |-> <<>>]
  /\ mfloor = [t \in Threads |-> 0]
  /\ mmax = 0
  /\ raced = FALSE

Init ==
  /\ InitHandles
  /\ InitThreads
  /\ InitGThread
  /\ InitPrivate
  /\ InitTime
  /\ machtb = <<1, 1>>
  /\ notify = "null"
  /\ line = [t \in Threads |-> 0]
  /\ flag = FALSE
  /\ nspur = 0
  /\ \/ /\ \E hs \in Programs :
             life = [h \in Handles |-> IF h \in hs THEN "zeroed" ELSE "absent"]
        /\ gthread = "absent"
        /\ errArg = FALSE
        /\ err = "null"
     \/ /\ life = [h \in Handles |-> "absent"]
        /\ gthread = "none"
        /\ errArg \in BOOLEAN
        /\ err \in {"stale", "null"}

AnyCall(t) ==
  \E o \in Ops : \E order \in Resolves(o) : Call(t, o, order) /\ UNCHANGED svars

Next ==
  \/ \E t \in Threads :
       \/ AnyCall(t)
       \/ get_impl(t)
       \/ pthread_call(t)
       \/ spurious_wakeup(t) /\ UNCHANGED nspur
       \/ \E h \in Handles : g_init(t, h)
       \/ \E h \in Handles : g_clear(t, h)
       \/ g_thread_try_new_entry(t)
       \/ g_thread_try_new(t)
       \/ \E u \in Threads : g_thread_ref(t, u)
       \/ g_thread_join(t)
       \/ g_thread_unref(t)
       \/ g_thread_unref_join(t)
       \/ g_thread_unref_delete(t)
  \/ ThreadFunc_return

Spec == Init /\ [][Next]_vars

(***************************************************************************)
(* PrivSpec: a zeroed GPrivate, declared with or without a destructor,     *)
(* that any thread gets and sets at any time; the first uses race for the  *)
(* allocation of the key; a thread may end at any time.                    *)
(***************************************************************************)
PrivInit ==
  /\ InitHandles
  /\ InitThreads
  /\ InitGThread
  /\ InitPrivate
  /\ InitTime
  /\ machtb = <<1, 1>>
  /\ life = [h \in Handles |-> IF h = "priv" THEN "zeroed" ELSE "absent"]
  /\ notify \in {"null", "destroy"}
  /\ gthread = "absent"
  /\ errArg = FALSE
  /\ err = "null"
  /\ line = [t \in Threads |-> 0]
  /\ flag = FALSE
  /\ nspur = 0

PrivNext ==
  \E t \in Threads :
    \/ AnyCall(t)
    \/ get_impl(t)
    \/ g_private_get(t)
    \/ g_private_set(t)
    \/ thread_exit(t)

PrivSpec == PrivInit /\ [][PrivNext]_vars

(***************************************************************************)
(* WaitSpec: the predicate loop of the test.  The main thread locks the    *)
(* mutex, waits on the condition variable until it sees the flag, and      *)
(* unlocks; every other thread runs the middle of ThreadFunc: lock, set    *)
(* the flag, signal (or broadcast), unlock.  The mutex and the condition   *)
(* variable are each set up by g_*_init in main or left zeroed.            *)
(***************************************************************************)
Waiter == 1

\* main, lines 79-82
main_wait(t) ==
  /\ t = Waiter
  /\ pc[t] = "idle"
  /\ \/ /\ line[t] = 79
        /\ Call(t, "lock", <<"mutex">>)
        /\ line' = [line EXCEPT ![t] = 80]
        /\ UNCHANGED <<flag, nspur>>
     \/ /\ line[t] = 80
        /\ line' = [line EXCEPT ![t] = IF flag THEN 82 ELSE 81]
        /\ UNCHANGED <<hvars, ovars, tvars, cvars, gvars, flag, nspur, xvars, kvars, mvars>>
     \/ /\ line[t] = 81
        /\ \E order \in Resolves("wait") : Call(t, "wait", order)
        /\ line' = [line EXCEPT ![t] = 80]
        /\ UNCHANGED <<flag, nspur>>
     \/ /\ line[t] = 82
        /\ Call(t, "unlock", <<"mutex">>)
        /\ line' = [line EXCEPT ![t] = 84]
        /\ UNCHANGED <<flag, nspur>>

\* ThreadFunc, lines 31-34
ThreadFunc_signal(t) ==
  /\ t # Waiter
  /\ pc[t] = "idle"
  /\ \/ /\ line[t] = 31
        /\ Call(t, "lock", <<"mutex">>)
        /\ line' = [line EXCEPT ![t] = 32]
        /\ UNCHANGED <<flag, nspur>>
     \/ /\ line[t] = 32
        /\ flag' = TRUE
        /\ line' = [line EXCEPT ![t] = 33]
        /\ UNCHANGED <<hvars, ovars, tvars, cvars, gvars, nspur, xvars, kvars, mvars>>
     \/ /\ line[t] = 33
        /\ \E o \in {"signal", "broadcast"} : Call(t, o, <<"cond">>)
        /\ line' = [line EXCEPT ![t] = 34]
        /\ UNCHANGED <<flag, nspur>>
     \/ /\ line[t] = 34
        /\ Call(t, "unlock", <<"mutex">>)
        /\ line' = [line EXCEPT ![t] = 36]
        /\ UNCHANGED <<flag, nspur>>

\* Handle h as main leaves it before the thread is spawned: set up by
\* g_*_init (lines 57, 60) or zeroed.
WaitInit ==
  /\ InitThreads
  /\ InitGThread
  /\ InitPrivate
  /\ InitTime
  /\ machtb = <<1, 1>>
  /\ notify = "null"
  /\ gthread = "absent"
  /\ errArg = FALSE
  /\ err = "null"
  /\ line = [t \in Threads |-> IF t = Waiter THEN 79 ELSE 31]
  /\ flag = FALSE
  /\ nspur = 0
  /\ \E inited \in SUBSET {"mutex", "cond"} :
       /\ life = [h \in Handles |->
                   IF h \in inited THEN "inited"
                   ELSE IF h \in {"mutex", "cond"} THEN "zeroed" ELSE "absent"]
       /\ p = [h \in Handles |-> IF h \in inited THEN <<h, Waiter>> ELSE NULL]
       /\ obj = [o \in Obj |->
                  IF o[1] \in inited /\ o[2] = Waiter THEN impl_new(o[1]) ELSE "none"]
       /\ nalloc = [h \in Handles |-> IF h \in inited THEN 1 ELSE 0]
  /\ freed = [o \in Obj |-> 0]
  /\ owner = [o \in Obj |-> NoThread]
  /\ count = [o \in Obj |-> 0]
  /\ waiters = [o \in Obj |-> {}]
  /\ rets = [h \in Handles |-> {}]
  /\ seen = [h \in Handles |-> NULL]

\* The steps of thread t that the scheduler runs whenever they stay enabled.
WaitStep(t) ==
  \/ main_wait(t)
  \/ ThreadFunc_signal(t)
  \/ get_impl(t)
  \/ g_mutex_lock(t)
  \/ g_mutex_unlock(t)
  \/ g_cond_wait(t)
  \/ g_cond_wait_return(t)
  \/ g_cond_signal(t)
  \/ g_cond_broadcast(t)

WaitNext ==
  \E t \in Threads :
    \/ WaitStep(t)
    \/ spurious_wakeup(t) /\ nspur < MaxSpurious /\ nspur' = nspur + 1

\* Every thread that can take a step eventually runs.  A spurious wakeup is
\* never owed, and only finitely many happen: pthread mutexes are not fair,
\* and a waiter that woke spuriously for ever could keep the signalling
\* thread from ever getting the mutex.
WaitSpec == WaitInit /\ [][WaitNext]_vars /\ \A t \in Threads : WF_vars(WaitStep(t))

(***************************************************************************)
(* TestSpec: the test program from line 50 on.  main sets up the recursive *)
(* mutex and locks it REC_MUTEX_LOCK_COUNT times, sets up the condition    *)
(* variable and the mutex, uses the zeroed thread-local key, spawns        *)
(* ThreadFunc, waits for the flag, broadcasts, clears the condition        *)
(* variable, unlocks the recursive mutex, joins and releases the thread    *)
(* and clears the two mutexes.  line[t] is the line of the statement t     *)
(* executes or executes next.                                              *)
(***************************************************************************)
REC_MUTEX_LOCK_COUNT == 4

Main == Waiter
Child == 2

\* TLS_REF_VALUE of main (line 66) and of ThreadFunc (line 24)
TLS_REF_VALUE(t) == IF t = Main THEN 1 ELSE 2

\* The statement at line from has returned: go on to line to.
Advance(t, from, to) ==
  /\ pc[t] = "idle"
  /\ line[t] = from
  /\ line' = [line EXCEPT ![t] = to]
  /\ UNCHANGED <<hvars, ovars, tvars, cvars, gvars, flag, nspur, xvars, kvars, mvars>>

\* A statement that calls an operation on handles.
Stmt(t, from, o, order, to) ==
  /\ line[t] = from
  /\ Call(t, o, order)
  /\ line' = [line EXCEPT ![t] = to]
  /\ UNCHANGED <<flag, nspur>>

\* main, lines 51-69
main_setup(t) ==
  /\ t = Main
  /\ \/ line[t] = 51 /\ g_init(t, "rec")
     \/ life["rec"] = "inited" /\ Advance(t, 51, 54)
     \/ depth[t] < REC_MUTEX_LOCK_COUNT /\ Stmt(t, 54, "rlock", <<"rec">>, 54)
     \/ depth[t] = REC_MUTEX_LOCK_COUNT /\ Advance(t, 54, 57)
     \/ line[t] = 57 /\ g_init(t, "cond")
     \/ life["cond"] = "inited" /\ Advance(t, 57, 60)
     \/ line[t] = 60 /\ g_init(t, "mutex")
     \/ life["mutex"] = "inited" /\ Advance(t, 60, 64)
     \/ Stmt(t, 64, "get", <<"priv">>, 67)
     \/ Stmt(t, 67, "set", <<"priv">>, 69)
     \/ Stmt(t, 69, "get", <<"priv">>, 74)

\* main, lines 74-77
main_spawn(t) ==
  /\ t = Main
  /\ \/ line[t] = 74 /\ g_thread_try_new_entry(t)
     \/ result # "none" /\ Advance(t, 74, 79)

\* main, lines 84-94
main_finish(t) ==
  /\ t = Main
  /\ \/ Stmt(t, 84, "broadcast", <<"cond">>, 85)
     \/ line[t] = 85 /\ g_clear(t, "cond")
     \/ life["cond"] = "cleared" /\ Advance(t, 85, 88)
     \/ depth[t] > 0 /\ Stmt(t, 88, "runlock", <<"rec">>, 88)
     \/ depth[t] = 0 /\ Advance(t, 88, 90)
     \/ line[t] = 90 /\ g_thread_join(t)
     \/ xjoined /\ Advance(t, 90, 91)
     \/ line[t] = 91 /\ g_thread_unref(t)
     \/ held[t] = 0 /\ Advance(t, 91, 93)
     \/ line[t] = 93 /\ g_clear(t, "mutex")
     \/ life["mutex"] = "cleared" /\ Advance(t, 93, 94)
     \/ line[t] = 94 /\ g_clear(t, "rec")
     \/ life["rec"] = "cleared" /\ Advance(t, 94, 95)

\* ThreadFunc, lines 22-27
ThreadFunc_tls(t) ==
  /\ t = Child
  /\ tos = "running"
  /\ \/ Stmt(t, 22, "get", <<"priv">>, 25)
     \/ Stmt(t, 25, "set", <<"priv">>, 27)
     \/ Stmt(t, 27, "get", <<"priv">>, 31)

\* ThreadFunc, lines 36-40; when it returns the OS thread ends.
ThreadFunc_rec(t) ==
  /\ t = Child
  /\ \/ Stmt(t, 36, "rlock", <<"rec">>, 38)
     \/ Stmt(t, 38, "runlock", <<"rec">>, 40)
     \/ pc[t] = "idle" /\ line[t] = 40 /\ ThreadFunc_return

\* As main leaves its storage before line 51: nothing set up, the key zeroed
\* with a null notify (G_PRIVATE_INIT(nullptr)), no thread.
TestInit ==
  /\ InitHandles
  /\ InitThreads
  /\ InitGThread
  /\ InitPrivate
  /\ InitTime
  /\ machtb = <<1, 1>>
  /\ life = [h \in Handles |-> "zeroed"]
  /\ notify = "null"
  /\ gthread = "none"
  /\ errArg = FALSE
  /\ err = "null"
  /\ line = [t \in Threads |-> IF t = Main THEN 51 ELSE IF t = Child THEN 22 ELSE 0]
  /\ flag = FALSE
  /\ nspur = 0

\* The steps of thread t that the scheduler runs whenever they stay enabled.
\* No first use is raced in the test, so no compare-and-swap fails.
TestStep(t) ==
  \/ main_setup(t)
  \/ main_spawn(t)
  \/ main_wait(t)
  \/ main_finish(t)
  \/ ThreadFunc_tls(t)
  \/ ThreadFunc_signal(t) /\ (line[t] = 33 => op'[t] = "signal")
  \/ ThreadFunc_rec(t)
  \/ get_impl_read(t)
  \/ impl_new_alloc(t)
  \/ impl_new_init(t)
  \/ get_impl_cas(t)
  \/ g_private_get(t)
  \/ g_private_set(t) /\ stored'[t] = TLS_REF_VALUE(t)
  \/ g_mutex_lock(t)
  \/ g_mutex_unlock(t)
  \/ g_rec_mutex_lock(t)
  \/ g_rec_mutex_unlock(t)
  \/ g_cond_wait(t)
  \/ g_cond_wait_return(t)
  \/ g_cond_signal(t)
  \/ g_cond_broadcast(t)
  \/ g_thread_try_new(t)
  \/ g_thread_unref_join(t)
  \/ g_thread_unref_delete(t)

TestNext ==
  \E t \in Threads :
    \/ TestStep(t)
    \/ spurious_wakeup(t) /\ nspur < MaxSpurious /\ nspur' = nspur + 1

TestSpec == TestInit /\ [][TestNext]_vars /\ \A t \in Threads : WF_vars(TestStep(t))

(***************************************************************************)
(* TimeSpec: g_get_monotonic_time, called by any thread at any time.  The  *)
(* function-static timebase_info is zero until the first call fills it in  *)
(* with mach_timebase_info and normalises it so that ticks divided by      *)
(* denom are microseconds.  The steps are the statements of the function;  *)
(* the fields are 32 bits wide, which the time bases below do not reach.   *)
(***************************************************************************)
\* What mach_timebase_info reports on the machines the library is built for:
\* nanosecond ticks (x86_64) and 24 MHz ticks (arm64).
TimeBases == {<<1, 1>>, <<125, 3>>}

\* mach_absolute_time() when the process starts: the machine has been up for
\* more than a microsecond.
BootTicks == 1000

\* The clock advances by one tick or by a microsecond of nanosecond ticks.
TickSteps == {1, 1000}

TimePcs == {"m_test", "m_info", "m_numer", "m_denom", "m_ret"}

\* A thread is between its test of timebase_info.denom and the end of the
\* normalisation while another thread is inside the function: the accesses
\* to timebase_info race.
Overlap ==
  \E t, u \in Threads :
    /\ t # u
    /\ pc[t] \in {"m_info", "m_numer", "m_denom"}
    /\ pc[u] \in TimePcs

\* What a step of thread t inside the function leaves alone.
TimeFrame(t) ==
  /\ op' = [op EXCEPT ![t] = IF pc'[t] = "idle" THEN "none" ELSE "time"]
  /\ raced' = (raced \/ Overlap')
  /\ UNCHANGED <<hvars, ovars, todo, impl, res, cvars, gvars, svars, xvars, kvars>>
  /\ UNCHANGED <<machtb, ticks>>

\* A call of g_get_monotonic_time() starts.
monotonic_call(t) ==
  /\ pc[t] = "idle"
  /\ pc' = [pc EXCEPT ![t] = "m_test"]
  /\ mret' = [mret EXCEPT ![t] = <<>>]
  /\ mfloor' = [mfloor EXCEPT ![t] = mmax]
  /\ UNCHANGED <<numer, denom, mmax>>
  /\ TimeFrame(t)

\* if (timebase_info.denom == 0)
monotonic_test(t) ==
  /\ pc[t] = "m_test"
  /\ pc' = [pc EXCEPT ![t] = IF denom = 0 THEN "m_info" ELSE "m_ret"]
  /\ UNCHANGED <<numer, denom, mret, mfloor, mmax>>
  /\ TimeFrame(t)

\* mach_timebase_info(&timebase_info)
monotonic_info(t) ==
  /\ pc[t] = "m_info"
  /\ numer' = machtb[1]
  /\ denom' = machtb[2]
  /\ pc' = [pc EXCEPT ![t] = "m_numer"]
  /\ UNCHANGED <<mret, mfloor, mmax>>
  /\ TimeFrame(t)

\* if (numer % 1000 == 0) numer /= 1000; else denom *= 1000;
monotonic_numer(t) ==
  /\ pc[t] = "m_numer"
  /\ IF numer % 1000 = 0
     THEN numer' = numer \div 1000 /\ UNCHANGED denom
     ELSE denom' = denom * 1000 /\ UNCHANGED numer
  /\ pc' = [pc EXCEPT ![t] = "m_denom"]
  /\ UNCHANGED <<mret, mfloor, mmax>>
  /\ TimeFrame(t)

\* if (denom % numer == 0) { denom /= numer; numer = 1; }
monotonic_denom(t) ==
  /\ pc[t] = "m_denom"
  /\ IF denom % numer = 0
     THEN denom' = denom \div numer /\ numer' = 1
     ELSE UNCHANGED <<numer, denom>>
  /\ pc' = [pc EXCEPT ![t] = "m_ret"]
  /\ UNCHANGED <<mret, mfloor, mmax>>
  /\ TimeFrame(t)

\* return mach_absolute_time() / timebase_info.denom
monotonic_return(t) ==
  /\ pc[t] = "m_ret"
  /\ LET r == ticks \div denom
     IN /\ mret' = [mret EXCEPT ![t] = <<r>>]
        /\ mmax' = IF r > mmax THEN r ELSE mmax
  /\ pc' = [pc EXCEPT ![t] = "idle"]
  /\ UNCHANGED <<numer, denom, mfloor>>
  /\ TimeFrame(t)

g_get_monotonic_time(t) ==
  \/ monotonic_call(t)
  \/ monotonic_test(t)
  \/ monotonic_info(t)
  \/ monotonic_numer(t)
  \/ monotonic_denom(t)
  \/ monotonic_return(t)

\* How often the clock has advanced by each of its steps.
SmallTicks == (ticks - BootTicks) % 1000
LargeTicks == (ticks - BootTicks) \div 1000

\* mach_absolute_time() advances.
mach_absolute_time ==
  /\ SmallTicks + LargeTicks < MaxTicks
  /\ \E d \in TickSteps : ticks' = ticks + d
  /\ UNCHANGED <<hvars, ovars, tvars, cvars, gvars, svars, xvars, kvars>>
  /\ UNCHANGED <<numer, denom, machtb, mret, mfloor, mmax, raced>>

TimeInit ==
  /\ InitHandles
  /\ InitThreads
  /\ InitGThread
  /\ InitPrivate
  /\ life = [h \in Handles |-> "absent"]
  /\ notify = "null"
  /\ gthread = "absent"
  /\ errArg = FALSE
  /\ err = "null"
  /\ line = [t \in Threads |-> 0]
  /\ flag = FALSE
  /\ nspur = 0
  /\ numer = 0
  /\ denom = 0
  /\ machtb \in TimeBases
  /\ ticks = BootTicks
  /\ mret = [t \in Threads |-> <<>>]
  /\ mfloor = [t \in Threads |-> 0]
  /\ mmax = 0
  /\ raced = FALSE

TimeNext ==
  \/ \E t \in Threads : g_get_monotonic_time(t)
  \/ mach_absolute_time

TimeSpec == TimeInit /\ [][TimeNext]_vars

(***************************************************************************)
(* Properties of the lazy allocation.                                      *)
(***************************************************************************)
InGetImpl(t, h) ==
  /\ pc[t] \in {"read", "new", "init", "cas", "free", "reread"}
  /\ Head(todo[t]) = h

\* No call of *_get_impl(h) is in progress.
Quiescent(h) == \A t \in Threads : ~InGetImpl(t, h)

Destroyed(h) == {o \in ObjOf(h) : freed[o] > 0}

\* C1: on a handle that was zeroed at its first use, all calls of *_get_impl
\* return the same object, the one in the slot, and once all calls have
\* returned exactly one object constructed for the handle is live.
C1_OneObjectAllSame ==
  \A h \in Handles :
    life[h] = "lazy" =>
      /\ Cardinality(rets[h]) <= 1
      /\ rets[h] \subseteq {p[h]}
      /\ (Quiescent(h) /\ rets[h] # {}) => {o \in ObjOf(h) : Live(o)} = {p[h]}

\* Every thread raced on the first use of h, constructed an object, and every
\* call has returned.
C1_Witness ==
  \E h \in Handles :
    /\ life[h] = "lazy"
    /\ Quiescent(h)
    /\ \A t \in Threads : obj[<<h, t>>] # "none"
    /\ rets[h] # {}

\* C2: once a thread has read a non-null value from the slot of a handle, the
\* slot holds that value in every later state up to the clear of the handle.
C2_SlotStaysOnce ==
  \A h \in Handles :
    (seen[h] # NULL /\ life[h] # "cleared") => p[h] = seen[h]

\* The slot was read non-null while another thread, having read null, is
\* about to compare-and-swap its own object in.
C2_Witness ==
  \E h \in Handles : \E t \in Threads :
    /\ life[h] = "lazy"
    /\ seen[h] # NULL
    /\ pc[t] = "cas" /\ Head(todo[t]) = h

\* C3: a thread whose compare-and-swap failed destroys the object it
\* constructed itself, once; the published object is not destroyed by the
\* lazy path; when all racing calls have returned, objects constructed minus
\* objects destroyed is 1.
C3_LosersCleanUp ==
  \A h \in Handles :
    life[h] = "lazy" =>
      /\ \A o \in ObjOf(h) : freed[o] <= 1 /\ (freed[o] = 1 => obj[o] # "none")
      /\ p[h] # NULL => freed[p[h]] = 0
      /\ \A t \in Threads :
           (pc[t] = "reread" /\ Head(todo[t]) = h) =>
             (impl[t] = <<h, t>> /\ freed[<<h, t>>] = 1)
      /\ (Quiescent(h) /\ rets[h] # {}) => nalloc[h] - Cardinality(Destroyed(h)) = 1

\* Every thread constructed an object for h, all but one destroyed theirs, and
\* every call has returned.
C3_Witness ==
  \E h \in Handles :
    /\ life[h] = "lazy"
    /\ Quiescent(h)
    /\ nalloc[h] = NThreads
    /\ Cardinality(Destroyed(h)) = NThreads - 1

\* C4: the slot of a handle never holds an object whose construction has not
\* finished, and no pthread call is made on such an object.
C4_PublishedIsConstructed ==
  /\ \A h \in Handles : p[h] # NULL => Constructed(p[h])
  /\ \A t \in Threads : \A h \in Handles :
       (pc[t] \in {"call", "waiting"} /\ res[t][h] # NULL) => Constructed(res[t][h])

\* The slot is published on the lazy path while another thread's speculative
\* object is allocated and not yet initialized.
C4_Witness ==
  \E h \in Handles : \E t \in Threads :
    /\ life[h] = "lazy"
    /\ p[h] # NULL
    /\ pc[t] = "init" /\ Head(todo[t]) = h
    /\ obj[impl[t]] = "raw"

\* C5: no two threads hold the GMutex at once; every lock and unlock is made
\* on the object in the slot, and the holder owns that object.
C5_MutualExclusion ==
  /\ \A t, u \in Threads : t # u => ~(holds[t] /\ holds[u])
  /\ \A t \in Threads :
       (pc[t] = "call" /\ op[t] \in {"lock", "unlock"}) => res[t]["mutex"] = p["mutex"]
  /\ \A t \in Threads :
       (holds[t] /\ p["mutex"] # NULL) => owner[p["mutex"]] = t

\* The first locks raced on zeroed memory (two objects were constructed), one
\* thread holds the mutex and another is blocked in pthread_mutex_lock.
C5_Witness ==
  \E t, u \in Threads :
    /\ t # u
    /\ life["mutex"] = "lazy"
    /\ nalloc["mutex"] >= 2
    /\ holds[t]
    /\ pc[u] = "call" /\ op[u] = "lock"

\* C9: a thread that has locked the recursive mutex more often than it has
\* unlocked it owns it with exactly that count and no other thread has
\* returned from g_rec_mutex_lock; the owner never blocks on itself; and when
\* every lock has been matched by an unlock the mutex is free.
C9_RecursiveLockCount ==
  /\ \A t \in Threads :
       (depth[t] >= 1 /\ p["rec"] # NULL) =>
         /\ owner[p["rec"]] = t
         /\ count[p["rec"]] = depth[t]
         /\ \A u \in Threads \ {t} : depth[u] = 0
  /\ \A t \in Threads :
       (pc[t] = "call" /\ op[t] = "rlock" /\ owner[res[t]["rec"]] = t) =>
         CanLock(t, res[t]["rec"])
  /\ ((\A t \in Threads : depth[t] = 0) /\ p["rec"] # NULL) =>
       (owner[p["rec"]] = NoThread /\ count[p["rec"]] = 0)

\* A thread holds the recursive mutex MaxDepth deep while another is blocked
\* in g_rec_mutex_lock.
C9_Witness ==
  \E t, u \in Threads :
    /\ t # u
    /\ depth[t] = MaxDepth
    /\ pc[u] = "call" /\ op[u] = "rlock"

(***************************************************************************)
(* Properties of the thread handle.                                        *)
(***************************************************************************)
RECURSIVE HeldUpTo(_)
HeldUpTo(n) == IF n = 0 THEN 0 ELSE held[n] + HeldUpTo(n - 1)

\* The references the threads own.
HeldTotal == HeldUpTo(NThreads)

\* C6: after a successful spawn the count is 1, it equals the references
\* owned after any add_ref and release calls, and, no g_thread_join having
\* been called, no release before the last one joins or frees and the last
\* one joins the OS thread once and frees the handle once.
C6_OneJoinOneFree ==
  (created = "ok" /\ ~xjoined) =>
    /\ ref_count = HeldTotal
    /\ (nref = 0 /\ result = "handle" /\ HeldTotal = 1) => ref_count = 1
    /\ njoin <= 1 /\ nfree <= 1
    /\ (njoin > 0 \/ nfree > 0) => (ref_count = 0 /\ HeldTotal = 0)
    /\ (HeldTotal = 0 /\ \A t \in Threads : pc[t] = "idle") =>
         (njoin = 1 /\ nfree = 1 /\ tos = "joined" /\ gthread = "freed")

\* MaxRefs add_ref calls were made and every reference has been released.
C6_Witness ==
  /\ created = "ok" /\ ~xjoined
  /\ nref = MaxRefs
  /\ HeldTotal = 0
  /\ \A t \in Threads : pc[t] = "idle"
  /\ njoin = 1 /\ nfree = 1

\* C7: after g_thread_join(t); g_thread_unref(t) on a handle with count 1 the
\* OS thread has been joined exactly once and the handle is freed.
C7_JoinOnceThenFree ==
  (created = "ok" /\ xjoined /\ nref = 0 /\ HeldTotal = 0
     /\ \A t \in Threads : pc[t] = "idle") =>
    (njoin = 1 /\ gthread = "freed")

\* C8: when pthread_create fails, g_thread_try_new returns null, reports the
\* failure through a supplied error slot and leaves no GThread allocated; it
\* returns a handle only when the OS thread was created.
C8_SpawnFailureSignalled ==
  /\ (result # "none" /\ created = "failed") =>
       (result = "null" /\ gthread # "live" /\ (errArg => err = "error"))
  /\ result = "handle" => created = "ok"

(***************************************************************************)
(* Properties of the condition variable.                                   *)
(***************************************************************************)
\* C10: in the predicate loop, a thread blocked in g_cond_wait returns from
\* it, holding the mutex, and the waiter leaves the loop, whichever thread
\* runs first; whenever the waiter tests the flag it holds the mutex.
C10_WaiterWoken ==
  /\ [](\A t \in Threads :
         (pc[t] = "idle" /\ line[t] \in {80, 81, 82}) =>
           (holds[t] /\ p["mutex"] # NULL /\ owner[p["mutex"]] = t))
  /\ (pc[Waiter] = "waiting") ~>
       (pc[Waiter] = "idle" /\ holds[Waiter] /\ owner[p["mutex"]] = Waiter)
  /\ <>(line[Waiter] = 84)

\* Mutex and condition variable were zeroed at first use; the waiter blocked
\* in g_cond_wait has been woken while the signalling thread, which has set
\* the flag and signalled, still holds the mutex.
C10_Witness ==
  \E t \in Threads :
    /\ life["mutex"] = "lazy" /\ life["cond"] = "lazy"
    /\ pc[Waiter] = "waiting"
    /\ Waiter \notin waiters[res[Waiter]["cond"]]
    /\ flag
    /\ t # Waiter /\ pc[t] = "idle" /\ line[t] = 34 /\ holds[t]

(***************************************************************************)
(* Properties of the thread-local key.                                     *)
(***************************************************************************)
\* C11: g_private_get returns to a thread the value of its own last
\* g_private_set, null when it made none, and the value a thread would get is
\* never changed by another thread, also when the key was allocated in a race.
C11_KeyIsolation ==
  \A t \in Threads :
    /\ got[t] # <<>> => got[t] = <<stored[t]>>
    /\ (pc[t] # "exited" /\ p["priv"] # NULL) => tls[p["priv"]][t] = stored[t]
    /\ (pc[t] = "call" /\ op[t] = "get") => tls[res[t]["priv"]][t] = stored[t]

\* The key was allocated in a race; two threads stored distinct non-null
\* values and each got its own back.
C11_Witness ==
  \E t, u \in Threads :
    /\ nalloc["priv"] >= 2
    /\ stored[t] # 0 /\ stored[u] # 0 /\ stored[t] # stored[u]
    /\ got[t] = <<stored[t]>> /\ got[u] = <<stored[u]>>

\* C18: no destructor runs for a thread before it ends, so none runs in
\* g_private_set; at the end of a thread the destructor runs at most once,
\* on the last value the thread stored, and only when that value and the
\* notify field of the handle are non-null.
C18_DestructorOnlyAtExit ==
  \A t \in Threads :
    /\ pc[t] # "exited" => (ndtor[t] = 0 /\ dval[t] = {})
    /\ ndtor[t] <= 1
    /\ ndtor[t] = 1 => (dval[t] = {stored[t]} /\ stored[t] # 0 /\ notify = "destroy")
    /\ (pc[t] = "exited" /\ (stored[t] = 0 \/ notify = "null")) => ndtor[t] = 0

\* A thread that stored a value under a key with a destructor has ended and
\* the destructor ran on that value, while another thread still has its own.
C18_Witness ==
  \E t, u \in Threads :
    /\ pc[t] = "exited" /\ ndtor[t] = 1 /\ dval[t] = {stored[t]}
    /\ pc[u] # "exited" /\ stored[u] # 0 /\ stored[u] # stored[t]

\* The destructor of the published key does not change.
DestructorFrozen ==
  p["priv"] # NULL =>
    (p'["priv"] = p["priv"] /\ dtor'[p["priv"]] = dtor[p["priv"]])

\* C19: the published key is bound to the notify field of the handle, as read
\* by the call that published it, and keeps that binding; get and set use the
\* published key only, and a key that lost the race holds no value and is
\* deleted once its call has returned.
C19_DestructorBinding ==
  /\ [](p["priv"] # NULL => dtor[p["priv"]] = notify)
  /\ [][DestructorFrozen]_vars
  /\ [](\A t \in Threads :
          (pc[t] = "call" /\ op[t] \in {"get", "set"}) => res[t]["priv"] = p["priv"])
  /\ [](\A o \in ObjOf("priv") : o # p["priv"] => \A t \in Threads : tls[o][t] = 0)
  /\ []((Quiescent("priv") /\ p["priv"] # NULL) =>
          \A o \in ObjOf("priv") \ {p["priv"]} : obj[o] # "none" => freed[o] = 1)

\* A key with a destructor is published, a key that lost the race has been
\* deleted, and a thread has stored a value under the published key.
C19_Witness ==
  \E o \in ObjOf("priv") : \E t \in Threads :
    /\ p["priv"] # NULL /\ o # p["priv"]
    /\ dtor[p["priv"]] = "destroy" /\ dtor[o] = "destroy"
    /\ freed[o] = 1
    /\ tls[p["priv"]][t] # 0

(***************************************************************************)
(* Properties of the handles in general.                                   *)
(***************************************************************************)
\* The handles with an init and a clear operation.
Sync == {"mutex", "rec", "cond"}

LiveObjects(h) == {o \in ObjOf(h) : Live(o)}

\* C12: whether a handle was set up by g_*_init or was zeroed, its operations
\* act on the one live object of its slot, which decides who blocks, who
\* acquires and who is woken; one object is live while the handle is in use;
\* and clear completes and leaves no object live.
C12_InitLazyIndistinguishable ==
  \A h \in Sync :
    /\ (life[h] \in {"inited", "lazy"} /\ Quiescent(h) /\ p[h] # NULL) =>
         LiveObjects(h) = {p[h]}
    /\ \A t \in Threads :
         (pc[t] \in {"call", "waiting"} /\ h \in OpHandles(op[t])) => res[t][h] = p[h]
    /\ life[h] = "cleared" =>
         /\ LiveObjects(h) = {}
         /\ \A t \in Threads : ~(pc[t] = "fault" /\ op[t] = "clear")

\* C13: a g_mutex_lock on a mutex that no thread holds, fresh or unlocked
\* again, does not block; a g_mutex_unlock releases the object its caller
\* locked; and when no thread holds the mutex its object is unowned.
C13_LockUnlockRoundTrip ==
  /\ \A t \in Threads :
       (pc[t] = "call" /\ op[t] = "lock" /\ \A u \in Threads : ~holds[u]) =>
         (CanLock(t, res[t]["mutex"]) /\ ENABLED g_mutex_lock(t))
  /\ \A t \in Threads :
       (pc[t] = "call" /\ op[t] = "unlock") =>
         (owner[res[t]["mutex"]] = t /\ ENABLED g_mutex_unlock(t))
  /\ ((\A u \in Threads : ~holds[u]) /\ p["mutex"] # NULL) =>
       (owner[p["mutex"]] = NoThread /\ count[p["mutex"]] = 0)

\* A thread is about to lock the lazily allocated mutex, whose object has been
\* locked and released by the race of the first users and is unowned.
C13_Witness ==
  \E t \in Threads :
    /\ life["mutex"] = "lazy"
    /\ nalloc["mutex"] >= 2
    /\ Quiescent("mutex")
    /\ pc[t] = "call" /\ op[t] = "lock"
    /\ \A u \in Threads : ~holds[u]
    /\ owner[p["mutex"]] = NoThread

GetImplPcs == {"read", "new", "init", "cas", "free", "reread"}

\* The position of a thread in *_get_impl, and what it still has to do at
\* most: six steps for each handle it has not resolved.
Rank(l) ==
  CASE l = "read" -> 0
    [] l = "new" -> 1
    [] l = "init" -> 2
    [] l = "cas" -> 3
    [] l = "free" -> 4
    [] l = "reread" -> 5
    [] OTHER -> 0

Measure(t) == 6 * Len(todo[t]) - Rank(pc[t])

\* Thread t takes a step of *_get_impl.
GetImplStep(t) ==
  /\ pc[t] \in GetImplPcs
  /\ <<pc[t], todo[t]>>' # <<pc[t], todo[t]>>

\* Each step of *_get_impl brings its return nearer and touches no mutex or
\* condition variable; on the fast path it allocates nothing and returns.
GetImplProgress ==
  \A t \in Threads :
    GetImplStep(t) =>
      /\ Measure(t)' < Measure(t)
      /\ UNCHANGED ovars
      /\ (pc[t] = "read" /\ p[Head(todo[t])] # NULL) =>
           (UNCHANGED <<obj, nalloc, p>> /\ todo'[t] = Tail(todo[t]))

\* C16: a thread inside *_get_impl can always take its next step, whatever
\* the other threads do or wherever they stand; it returns after at most six
\* steps of its own (one construction, one compare-and-swap, one
\* destruction), takes no lock, and allocates nothing when it reads the slot
\* non-null.
C16_GetImplNeverBlocks ==
  /\ [](\A t \in Threads : pc[t] \in GetImplPcs => ENABLED get_impl(t))
  /\ [][GetImplProgress]_vars

\* A thread that lost the race for the mutex is about to re-read the slot
\* while the winner has gone on and holds the mutex.
C16_Witness ==
  \E t, u \in Threads :
    /\ t # u
    /\ pc[t] = "reread" /\ Head(todo[t]) = "mutex"
    /\ holds[u]

\* Nothing is written through a null error parameter.
ErrorUntouched == ~errArg => err' = err

\* C17: when g_thread_try_new is about to create the thread, a supplied error
\* slot holds null whatever it held at the call; without a slot nothing is
\* written.
C17_ErrorClearedOnEntry ==
  /\ [](\A t \in Threads :
          pc[t] = "create" => (created = "none" /\ (errArg => err = "null")))
  /\ [][ErrorUntouched]_vars

\* g_thread_try_new was called with an error slot and is about to create the
\* thread.
C17_Witness ==
  \E t \in Threads : pc[t] = "create" /\ errArg /\ err = "null" /\ created = "none"

(***************************************************************************)
(* Properties of the test program.                                         *)
(***************************************************************************)
\* No thread uses an object that was destroyed, and no compare-and-swap fails.
TestUsesLiveObjects ==
  \A t \in Threads :
    /\ pc[t] \notin {"free", "reread"}
    /\ \A h \in Handles :
         (pc[t] \in {"call", "waiting"} /\ h \in OpHandles(op[t])) => Live(res[t][h])

\* C14: once the thread is created, the scenario is never stuck before main
\* has executed its last statement: some thread can take a step, so the wait
\* ends, the recursive mutex is released and join and release complete; and
\* no operation is made on a destroyed object on the way.
C14_ScenarioTerminates ==
  /\ TestUsesLiveObjects
  /\ (created = "ok" /\ line[Main] # 95) => ENABLED TestNext

\* C15: when main has executed its last statement every object the shim
\* allocated has been destroyed once, the GThread is freed once and the OS
\* thread was joined once, so nothing is live.
C15_NothingLeaked ==
  (created = "ok" /\ line[Main] = 95) =>
    /\ \A o \in Obj : obj[o] # "none" => freed[o] = 1
    /\ \A h \in Handles : LiveObjects(h) = {}
    /\ gthread = "freed" /\ nfree = 1
    /\ tos = "joined" /\ njoin = 1

(***************************************************************************)
(* Properties of the clock.                                                *)
(***************************************************************************)
\* When no call overlaps the initialisation of the time base by another
\* call, the result of a call is greater than 0 and not less than any result
\* returned before the call started.
ClockNonDecreasingUnlessRaced ==
  ~raced =>
    \A t \in Threads :
      /\ mret[t] # <<>> => (mret[t][1] > 0 /\ mret[t][1] >= mfloor[t])
      /\ pc[t] = "m_ret" => (denom # 0 /\ ticks \div denom >= mfloor[t])

\* C20: the result of a call of g_get_monotonic_time is greater than 0 and
\* greater than every result returned before the call started.
C20_StrictlyIncreasing ==
  \A t \in Threads :
    mret[t] # <<>> => (mret[t][1] > 0 /\ mret[t][1] > mfloor[t])

\* The time base a first call computes from what mach_timebase_info reports
\* when no other call interferes.
Normalise(tb) ==
  LET n1 == IF tb[1] % 1000 = 0 THEN tb[1] \div 1000 ELSE tb[1]
      d1 == IF tb[1] % 1000 = 0 THEN tb[2] ELSE tb[2] * 1000
  IN IF d1 % n1 = 0 THEN <<1, d1 \div n1>> ELSE <<n1, d1>>

\* C21: every call of g_get_monotonic_time, concurrent first calls included,
\* divides the tick count by the denominator a single-threaded first call
\* computes, never by zero, by a denominator that is not yet reduced or by
\* one that was normalised more than once.
C21_OneFinalDenominator ==
  \A t \in Threads :
    pc[t] = "m_ret" => (denom # 0 /\ denom = Normalise(machtb)[2])

====
